---- MODULE Spec2Model ----
(***************************************************************************)
(* Model of the LandClaiming plugin (src/Claiming/LandClaiming.rs).        *)
(*                                                                         *)
(* The plugin holds one HashMap from ChunkPosition to Claim.  Two event    *)
(* handlers read it and two commands mutate it.  The plugin is shared by   *)
(* Arc between the handlers and the commands and carries no lock, so the   *)
(* calls that different senders make into it interleave.  A call into a    *)
(* LandClaiming method borrows the plugin for the whole call (&self or     *)
(* &mut self), so one method call is one step; ClaimCommand::execute makes *)
(* two calls (is_claimed_chunk, then claim_chunk) and is two steps.        *)
(*                                                                         *)
(* Coordinates are kept in half blocks, so that a position has a           *)
(* fractional part: the real coordinate of h is h / 2.                     *)
(***************************************************************************)
EXTENDS Integers, Sequences, FiniteSets, TLC

\* ---------------------------------------------------------------- bounds
\* Number of connected players.
NumPlayers == 2
\* Horizontal coordinates x range over -NegHalf .. PosHalf half blocks.
NegHalf == 1
PosHalf == 2
\* z ranges over 0 .. PosHalfZ half blocks.
PosHalfZ == 0

\* ------------------------------------------------------------- constants
\* Blocks per chunk side (ChunkPosition::from_block_position).
ChunkWidth == 16

PlayerNames == <<"Alice", "Bob", "Carol", "Dave">>
Players == {PlayerNames[i] : i \in 1..NumPlayers}
\* A command sender that is not a player (sender.as_player() is None).
Console == "Console"
Senders == Players \cup {Console}

\* ------------------------------------------------------------- positions
Floor(h) == h \div 2
\* Rust `f64 as i32`: truncation toward zero.
AsI32(h) == IF h >= 0 THEN h \div 2 ELSE -((-h) \div 2)

XHalves == (-NegHalf)..PosHalf
ZHalves == 0..PosHalfZ
Positions == [x : XHalves, z : ZHalves]
\* Block positions have integer coordinates.
BlockPositions == {p \in Positions : p.x % 2 = 0 /\ p.z % 2 = 0}

ChunkPosition(cx, cz) == [x |-> cx, z |-> cz]
\* Every key a lookup or an insertion can compute.
CellXs == {Floor(h) : h \in XHalves} \cup {AsI32(h) : h \in XHalves}
            \cup {Floor(h) \div ChunkWidth : h \in XHalves}
CellZs == {Floor(h) : h \in ZHalves} \cup {AsI32(h) : h \in ZHalves}
            \cup {Floor(h) \div ChunkWidth : h \in ZHalves}
Cells == [x : CellXs, z : CellZs]

\* ChunkPosition::from_block_position: the chunk column of a position.
from_block_position(position) ==
    ChunkPosition(Floor(position.x) \div ChunkWidth,
                  Floor(position.z) \div ChunkWidth)

\* The cell the claim and unclaim commands compute from player.position().
CommandChunk(position) == ChunkPosition(Floor(position.x), Floor(position.z))

\* The cell handle_player_move computes from the new position.
MoveChunk(new_pos) == ChunkPosition(AsI32(new_pos.x), AsI32(new_pos.z))

\* ---------------------------------------------------------------- claims
NoClaim == [owner |-> "", members |-> <<>>]
Claim(owner) == [owner |-> owner, members |-> <<owner>>]
Contains(vec, name) == \E i \in DOMAIN vec : vec[i] = name
ClaimValues == {NoClaim} \cup {Claim(p) : p \in Players}

\* ---------------------------------------------------------------- messages
TxtClaimed == "Chunk claimed successfully."
TxtAlready == "This chunk is already claimed."
TxtUnclaimed == "Chunk unclaimed successfully."
TxtNoPermission == "You do not have permission to unclaim this chunk."
TxtNotClaimed == "This chunk is not claimed."
TxtDenied == "This land is claimed by {}. You cannot interact with it."
TxtEntered == "You entered land claimed by {}. Please respect their property."
Unknown == "Unknown"
\* A message: recipient, format string, and the name formatted into it.
Msg(to, text, name) == [to |-> to, text |-> text, name |-> name]

get_claim_at(cl, position) == cl[from_block_position(position)]

is_claimed_chunk(cl, chunk_pos) == cl[chunk_pos] # NoClaim

\* claim_chunk that also tells the player the chunk was free.
claim_chunk_two_messages(cl, player, chunk_pos) ==
    [claims |-> [cl EXCEPT ![chunk_pos] = Claim(player)],
     msgs   |-> <<Msg(player, TxtNotClaimed, ""),
                  Msg(player, TxtClaimed, "")>>]

\* claim_chunk that creates the Claim with an empty member list.
claim_chunk_no_members(cl, player, chunk_pos) ==
    [claims |-> [cl EXCEPT ![chunk_pos] =
                    [owner |-> player, members |-> <<>>]],
     msgs   |-> <<Msg(player, TxtClaimed, "")>>]

\* claim_chunk that keeps one Claim per player: it drops the player's
\* entries on other cells before it inserts.
claim_chunk_one_per_player(cl, player, chunk_pos) ==
    [claims |-> [c \in DOMAIN cl |->
                    IF c = chunk_pos THEN Claim(player)
                    ELSE IF cl[c].owner = player THEN NoClaim ELSE cl[c]],
     msgs   |-> <<Msg(player, TxtClaimed, "")>>]

claim_chunk(cl, player, chunk_pos) ==
    [claims |-> [cl EXCEPT ![chunk_pos] = Claim(player)],
     msgs   |-> <<Msg(player, TxtClaimed, "")>>]

\* unclaim_chunk without the owner comparison.
unclaim_chunk_any_requester(cl, player, chunk_pos) ==
    IF cl[chunk_pos] # NoClaim
    THEN [claims |-> [cl EXCEPT ![chunk_pos] = NoClaim],
          msgs   |-> <<Msg(player, TxtUnclaimed, "")>>]
    ELSE [claims |-> cl, msgs |-> <<Msg(player, TxtNotClaimed, "")>>]

\* unclaim_chunk whose absent branch reports success.
unclaim_chunk_absent_reports_success(cl, player, chunk_pos) ==
    IF cl[chunk_pos] # NoClaim
    THEN IF cl[chunk_pos].owner = player
         THEN [claims |-> [cl EXCEPT ![chunk_pos] = NoClaim],
               msgs   |-> <<Msg(player, TxtUnclaimed, "")>>]
         ELSE [claims |-> cl,
               msgs   |-> <<Msg(player, TxtNoPermission, "")>>]
    ELSE [claims |-> cl, msgs |-> <<Msg(player, TxtUnclaimed, "")>>]

\* unclaim_chunk that removes the entry before it compares the owner.
unclaim_chunk_remove_first(cl, player, chunk_pos) ==
    IF cl[chunk_pos] # NoClaim
    THEN [claims |-> [cl EXCEPT ![chunk_pos] = NoClaim],
          msgs   |-> IF cl[chunk_pos].owner = player
                     THEN <<Msg(player, TxtUnclaimed, "")>>
                     ELSE <<Msg(player, TxtNoPermission, "")>>]
    ELSE [claims |-> cl, msgs |-> <<Msg(player, TxtNotClaimed, "")>>]

\* unclaim_chunk whose owner branch reports success but keeps the entry.
unclaim_chunk_keeps_entry(cl, player, chunk_pos) ==
    IF cl[chunk_pos] # NoClaim
    THEN IF cl[chunk_pos].owner = player
         THEN [claims |-> cl,
               msgs   |-> <<Msg(player, TxtUnclaimed, "")>>]
         ELSE [claims |-> cl,
               msgs   |-> <<Msg(player, TxtNoPermission, "")>>]
    ELSE [claims |-> cl, msgs |-> <<Msg(player, TxtNotClaimed, "")>>]

unclaim_chunk(cl, player, chunk_pos) ==
    IF cl[chunk_pos] # NoClaim
    THEN IF cl[chunk_pos].owner = player
         THEN [claims |-> [cl EXCEPT ![chunk_pos] = NoClaim],
               msgs   |-> <<Msg(player, TxtUnclaimed, "")>>]
         ELSE [claims |-> cl,
               msgs   |-> <<Msg(player, TxtNoPermission, "")>>]
    ELSE [claims |-> cl, msgs |-> <<Msg(player, TxtNotClaimed, "")>>]

\* handle_interact_block that sends the denial but leaves the event alone.
handle_interact_block_no_cancel(cl, player, creative, block_pos) ==
    IF creative
    THEN [msgs |-> <<>>, cancelled |-> FALSE]
    ELSE LET claim == get_claim_at(cl, block_pos) IN
         IF claim # NoClaim
            /\ claim.owner # player
            /\ ~Contains(claim.members, player)
         THEN [msgs |-> <<Msg(player, TxtDenied, claim.owner)>>,
               cancelled |-> FALSE]
         ELSE [msgs |-> <<>>, cancelled |-> FALSE]

\* handle_interact_block without the gamemode early return.
handle_interact_block_no_bypass(cl, player, creative, block_pos) ==
    LET claim == get_claim_at(cl, block_pos) IN
    IF claim # NoClaim
       /\ claim.owner # player
       /\ ~Contains(claim.members, player)
    THEN [msgs |-> <<Msg(player, TxtDenied, claim.owner)>>,
          cancelled |-> TRUE]
    ELSE [msgs |-> <<>>, cancelled |-> FALSE]

\* The decision of handle_interact_block: messages sent and cancelled flag.
handle_interact_block(cl, player, creative, block_pos) ==
    IF creative
    THEN [msgs |-> <<>>, cancelled |-> FALSE]
    ELSE LET claim == get_claim_at(cl, block_pos) IN
         IF claim # NoClaim
            /\ claim.owner # player
            /\ ~Contains(claim.members, player)
         THEN [msgs |-> <<Msg(player, TxtDenied, claim.owner)>>,
               cancelled |-> TRUE]
         ELSE [msgs |-> <<>>, cancelled |-> FALSE]

\* The decision of handle_player_move.  The is-claimed test uses the
\* truncated coordinates as a cell; the detail lookup uses the chunk column.
\* When the detail lookup finds nothing, claim_owner is None: None differs
\* from the player's name, the members test defaults to false, and the
\* notice names "Unknown".
handle_player_move(cl, player, new_pos) ==
    IF is_claimed_chunk(cl, MoveChunk(new_pos))
    THEN LET claim == get_claim_at(cl, new_pos)
             absent == claim = NoClaim
         IN IF (absent \/ claim.owner # player)
               /\ ~(IF absent THEN FALSE ELSE Contains(claim.members, player))
            THEN [msgs |-> <<Msg(player, TxtEntered,
                                  IF absent THEN Unknown ELSE claim.owner)>>,
                  cancelled |-> FALSE]
            ELSE [msgs |-> <<>>, cancelled |-> FALSE]
    ELSE [msgs |-> <<>>, cancelled |-> FALSE]

\* ------------------------------------------------------------------ state
VARIABLES
    claims,            \* LandClaiming.claims
    pc,                \* per player: where its claim command stands
    player_chunk_pos,  \* per player: the local of ClaimCommand::execute
    last               \* the call that was made by the latest step

vars == <<claims, pc, player_chunk_pos, last>>

NoCell == ChunkPosition(0, 0)
\* op: the call; chunk: the cell it resolved for its first registry access.
Call(op, sender, chunk, creative, msgs, cancelled) ==
    [op |-> op, sender |-> sender, chunk |-> chunk,
     creative |-> creative, msgs |-> msgs, cancelled |-> cancelled]

Init ==
    /\ claims = [c \in Cells |-> NoClaim]
    /\ pc = [p \in Players |-> "idle"]
    /\ player_chunk_pos = [p \in Players |-> NoCell]
    /\ last = Call("none", Console, NoCell, FALSE, <<>>, FALSE)

\* ClaimCommand::execute up to and including the is_claimed_chunk call.
ClaimExecute(sender, pos) ==
    IF sender \notin Players
    THEN /\ last' = Call("claim", sender, NoCell, FALSE, <<>>, FALSE)
         /\ UNCHANGED <<claims, pc, player_chunk_pos>>
    ELSE /\ pc[sender] = "idle"
         /\ LET chunk == CommandChunk(pos) IN
            IF ~is_claimed_chunk(claims, chunk)
            THEN /\ pc' = [pc EXCEPT ![sender] = "claim_chunk"]
                 /\ player_chunk_pos' =
                        [player_chunk_pos EXCEPT ![sender] = chunk]
                 /\ last' = Call("claim_check", sender, chunk, FALSE,
                                 <<>>, FALSE)
                 /\ UNCHANGED claims
            ELSE /\ last' = Call("claim", sender, chunk, FALSE,
                                 <<Msg(sender, TxtAlready, "")>>, FALSE)
                 /\ UNCHANGED <<claims, pc, player_chunk_pos>>

\* The claim_chunk call made under a guard that waits for the cell to be
\* free, as a lock-and-recheck that blocks instead of failing would.
ClaimChunk_waits_for_free_cell(player) ==
    /\ pc[player] = "claim_chunk"
    /\ ~is_claimed_chunk(claims, player_chunk_pos[player])
    /\ LET r == claim_chunk(claims, player, player_chunk_pos[player]) IN
       /\ claims' = r.claims
       /\ last' = Call("claim", player, player_chunk_pos[player],
                       FALSE, r.msgs, FALSE)
    /\ pc' = [pc EXCEPT ![player] = "idle"]
    /\ player_chunk_pos' = [player_chunk_pos EXCEPT ![player] = NoCell]

\* ClaimCommand::execute: the claim_chunk call that follows a passed check.
ClaimChunk(player) ==
    /\ pc[player] = "claim_chunk"
    /\ LET r == claim_chunk(claims, player, player_chunk_pos[player]) IN
       /\ claims' = r.claims
       /\ last' = Call("claim", player, player_chunk_pos[player],
                       FALSE, r.msgs, FALSE)
    /\ pc' = [pc EXCEPT ![player] = "idle"]
    /\ player_chunk_pos' = [player_chunk_pos EXCEPT ![player] = NoCell]

\* UnclaimCommand::execute without the as_player test: a sender that is not
\* a player is answered like a player on an unclaimed chunk.
UnclaimExecute_answers_any_sender(sender, pos) ==
    IF sender \notin Players
    THEN /\ last' = Call("unclaim", sender, NoCell, FALSE,
                         <<Msg(sender, TxtNotClaimed, "")>>, FALSE)
         /\ UNCHANGED <<claims, pc, player_chunk_pos>>
    ELSE /\ pc[sender] = "idle"
         /\ LET chunk == CommandChunk(pos)
                r == unclaim_chunk(claims, sender, chunk) IN
            /\ claims' = r.claims
            /\ last' = Call("unclaim", sender, chunk, FALSE, r.msgs,
                            FALSE)
         /\ UNCHANGED <<pc, player_chunk_pos>>

\* UnclaimCommand::execute.
UnclaimExecute(sender, pos) ==
    IF sender \notin Players
    THEN /\ last' = Call("unclaim", sender, NoCell, FALSE, <<>>, FALSE)
         /\ UNCHANGED <<claims, pc, player_chunk_pos>>
    ELSE /\ pc[sender] = "idle"
         /\ LET chunk == CommandChunk(pos)
                r == unclaim_chunk(claims, sender, chunk) IN
            /\ claims' = r.claims
            /\ last' = Call("unclaim", sender, chunk, FALSE, r.msgs,
                            FALSE)
         /\ UNCHANGED <<pc, player_chunk_pos>>

\* The on_player_interact_block callback.
InteractBlock(player, creative, block_pos) ==
    /\ LET r == handle_interact_block(claims, player, creative, block_pos) IN
       last' = Call("interact", player, from_block_position(block_pos),
                    creative, r.msgs, r.cancelled)
    /\ UNCHANGED <<claims, pc, player_chunk_pos>>

\* The on_player_move callback.
PlayerMove(player, new_pos) ==
    /\ LET r == handle_player_move(claims, player, new_pos) IN
       last' = Call("move", player, MoveChunk(new_pos), FALSE,
                    r.msgs, r.cancelled)
    /\ UNCHANGED <<claims, pc, player_chunk_pos>>

Next ==
    \/ \E s \in Senders, pos \in Positions : ClaimExecute(s, pos)
    \/ \E p \in Players : ClaimChunk(p)
    \/ \E s \in Senders, pos \in Positions : UnclaimExecute(s, pos)
    \/ \E p \in Players, cr \in BOOLEAN, b \in BlockPositions :
           InteractBlock(p, cr, b)
    \/ \E p \in Players, pos \in Positions : PlayerMove(p, pos)

Spec == Init /\ [][Next]_vars

TypeOK ==
    /\ claims \in [Cells -> ClaimValues]
    /\ pc \in [Players -> {"idle", "claim_chunk"}]
    /\ player_chunk_pos \in [Players -> Cells]
\* ------------------------------------------------------------- properties
Success(p) == <<Msg(p, TxtClaimed, "")>>
Already(p) == <<Msg(p, TxtAlready, "")>>

\* C1: of two players whose claim commands run concurrently on the same
\* unclaimed cell, only one succeeds: once player b has become the owner of
\* the cell while player a's command on it is still running, a's command
\* ends with the already-claimed message and b stays the owner.
C1_LoserObservesAlreadyClaimed ==
    [][\A a \in Players, b \in Players :
          (/\ a # b
           /\ pc[a] = "claim_chunk"
           /\ claims[player_chunk_pos[a]] = Claim(b)
           /\ pc'[a] = "idle")
          => (/\ last'.msgs = Already(a)
              /\ claims'[player_chunk_pos[a]] = Claim(b))]_vars

\* C2: a step of a player's claim command that acts on a cell that holds a
\* Claim reports already-claimed and leaves that Claim as it was.
C2_ClaimOnClaimedCellFails ==
    [][(/\ last'.op \in {"claim", "claim_check"}
        /\ last'.sender \in Players
        /\ last' # last
        /\ is_claimed_chunk(claims, last'.chunk))
       => (/\ last'.msgs = Already(last'.sender)
           /\ claims'[last'.chunk] = claims[last'.chunk])]_vars

\* C3: an unclaim by player X on a claimed cell removes the Claim and
\* reports success exactly when X is the owner; for any other player it
\* reports the missing permission and the Claim stays as it was.
C3_UnclaimIffOwner ==
    [][(/\ last'.op = "unclaim"
        /\ last'.sender \in Players
        /\ is_claimed_chunk(claims, last'.chunk))
       => LET C == last'.chunk
              X == last'.sender
              isOwner == claims[C].owner = X
          IN /\ (claims'[C] = NoClaim) <=> isOwner
             /\ (last'.msgs = <<Msg(X, TxtUnclaimed, "")>>) <=> isOwner
             /\ ~isOwner =>
                  /\ last'.msgs = <<Msg(X, TxtNoPermission, "")>>
                  /\ claims'[C] = claims[C]]_vars

\* C3 witness: a non-owner's unclaim was refused and the owner's Claim stands.
C3_Witness ==
    /\ last.op = "unclaim"
    /\ last.sender \in Players
    /\ last.msgs = <<Msg(last.sender, TxtNoPermission, "")>>
    /\ claims[last.chunk] # NoClaim
    /\ claims[last.chunk].owner # last.sender

\* C4: an unclaim by any player on a cell without a Claim reports that the
\* chunk is not claimed and leaves the whole registry as it was.
C4_UnclaimUnclaimed ==
    [][(/\ last'.op = "unclaim"
        /\ last'.sender \in Players
        /\ ~is_claimed_chunk(claims, last'.chunk))
       => /\ last'.msgs = <<Msg(last'.sender, TxtNotClaimed, "")>>
          /\ claims' = claims]_vars

\* C4 witness: an unclaim hit a free cell while another cell was claimed.
C4_Witness ==
    /\ last.op = "unclaim"
    /\ last.sender \in Players
    /\ last.msgs = <<Msg(last.sender, TxtNotClaimed, "")>>
    /\ claims[last.chunk] = NoClaim
    /\ \E c \in Cells : claims[c] # NoClaim

\* C5: is_claimed(C) changes only from false to true at a successful claim
\* on C, or from true to false at a successful unclaim of C by its owner;
\* events, failed commands and calls on other cells leave it unchanged.
C5_IsClaimedFrame ==
    [][\A C \in Cells :
          is_claimed_chunk(claims', C) # is_claimed_chunk(claims, C)
          => \/ /\ ~is_claimed_chunk(claims, C)
                /\ last'.op = "claim"
                /\ last'.chunk = C
                /\ last'.sender \in Players
                /\ last'.msgs = Success(last'.sender)
             \/ /\ is_claimed_chunk(claims, C)
                /\ last'.op = "unclaim"
                /\ last'.chunk = C
                /\ last'.sender = claims[C].owner
                /\ last'.msgs = <<Msg(last'.sender, TxtUnclaimed, "")>>]_vars

\* C5 witness: the owner's unclaim has just freed a cell that a claim had
\* taken, while another cell is still claimed.
C5_Witness ==
    /\ last.op = "unclaim"
    /\ last.sender \in Players
    /\ last.msgs = <<Msg(last.sender, TxtUnclaimed, "")>>
    /\ ~is_claimed_chunk(claims, last.chunk)
    /\ \E c \in Cells : is_claimed_chunk(claims, c)

\* C6: a Claim of owner X at cell C is changed by no step other than a
\* successful unclaim that X issues for C.
C6_ClaimStaysUntilOwnerUnclaims ==
    [][\A C \in Cells :
          (claims[C] # NoClaim /\ claims'[C] # claims[C])
          => /\ last'.op = "unclaim"
             /\ last'.sender = claims[C].owner
             /\ last'.chunk = C
             /\ claims'[C] = NoClaim]_vars

\* C7: a block interaction by an actor not in creative mode is permitted
\* (not cancelled, no message) iff the cell of the target has no Claim or
\* the actor is the owner or a member; otherwise it is cancelled and one
\* denial naming the owner goes to the actor.  Cancelled iff a denial is sent.
C7_InteractDecision ==
    (last.op = "interact" /\ ~last.creative)
    => LET cl == claims[last.chunk]
           actor == last.sender
           allowed == \/ cl = NoClaim
                      \/ cl.owner = actor
                      \/ Contains(cl.members, actor)
       IN /\ allowed => (~last.cancelled /\ last.msgs = <<>>)
          /\ ~allowed => /\ last.cancelled
                         /\ last.msgs = <<Msg(actor, TxtDenied, cl.owner)>>
          /\ last.cancelled <=> (Len(last.msgs) = 1)

\* C7 witness: a survival-mode stranger was denied on a claimed cell.
C7_Witness ==
    /\ last.op = "interact"
    /\ ~last.creative
    /\ last.cancelled
    /\ claims[last.chunk] # NoClaim

\* C8: a block interaction by an actor in creative mode is never cancelled
\* and sends no message, whatever the registry, the cell and the actor.
C8_CreativeBypass ==
    (last.op = "interact" /\ last.creative)
    => (~last.cancelled /\ last.msgs = <<>>)

\* C8 witness: a creative-mode stranger interacted on a claimed cell.
C8_Witness ==
    /\ last.op = "interact"
    /\ last.creative
    /\ claims[last.chunk] # NoClaim
    /\ claims[last.chunk].owner # last.sender

\* C9: after player B's claim command succeeds at a position P, a block
\* interaction by another survival-mode player at any block position in the
\* chunk column of P is denied with a message naming B.
C9_ClaimProtectsItsChunk ==
    [][\A B \in Players :
          (/\ pc[B] = "claim_chunk"
           /\ pc'[B] = "idle"
           /\ last'.msgs = Success(B))
          => \A P \in Positions, Q \in BlockPositions, a \in Players \ {B} :
                (/\ CommandChunk(P) = last'.chunk
                 /\ from_block_position(Q) = from_block_position(P))
                => handle_interact_block(claims', a, FALSE, Q)
                     = [msgs |-> <<Msg(a, TxtDenied, B)>>,
                        cancelled |-> TRUE]]_vars

\* The movement decision the specification gives, for the cell C taken as
\* the cell of the new position.
MoveDecisionFor(C, cl, actor, msgs) ==
    /\ cl[C] = NoClaim => msgs = <<>>
    /\ (cl[C] # NoClaim
        /\ (cl[C].owner = actor \/ Contains(cl[C].members, actor)))
       => msgs = <<>>
    /\ (cl[C] # NoClaim
        /\ cl[C].owner # actor /\ ~Contains(cl[C].members, actor))
       => msgs = <<Msg(actor, TxtEntered, cl[C].owner)>>

\* C10: a movement event into a position whose cell is C sends nothing if
\* C is unclaimed or the actor is owner or member of its Claim, and one
\* notice naming the owner otherwise; it never cancels and never changes the
\* registry.  The cell of the position is read in each way the program
\* resolves a cell, and the claim is taken to hold if it holds for one.
C10_MoveDecision ==
    [][\A p \in Players, pos \in Positions :
          PlayerMove(p, pos)
          => /\ \/ MoveDecisionFor(from_block_position(pos), claims, p,
                                   last'.msgs)
                \/ MoveDecisionFor(MoveChunk(pos), claims, p, last'.msgs)
                \/ MoveDecisionFor(CommandChunk(pos), claims, p, last'.msgs)
             /\ ~last'.cancelled
             /\ claims' = claims]_vars

\* The cell a call resolves for a position: the movement handler truncates,
\* the claim and unclaim commands floor.
ResolvedBy(op, position) ==
    IF op = "move" THEN MoveChunk(position) ELSE CommandChunk(position)

\* C11: the cell that the claim command, the unclaim command and the
\* movement handler resolve is the chunk column of the position, floored
\* toward negative infinity: for every position P the call may have been
\* made at, the resolved cell is the chunk column of P, and another position
\* Q resolves to the same cell iff it lies in the same chunk column.
C11_ResolvesChunkColumn ==
    (last.op \in {"claim_check", "claim", "unclaim", "move"}
     /\ last.sender \in Players)
    => \A P \in Positions :
          ResolvedBy(last.op, P) = last.chunk
          => /\ last.chunk = from_block_position(P)
             /\ \A Q \in Positions :
                   (ResolvedBy(last.op, Q) = last.chunk)
                   <=> (from_block_position(Q) = from_block_position(P))

C13_NonPlayerAbsorbed ==
    [][(last'.op \in {"claim", "claim_check", "unclaim"}
        /\ last'.sender \notin Players)
       => /\ claims' = claims
          /\ last'.msgs = <<>>
          /\ pc' = pc]_vars

\* C13 witness: the console issued unclaim while a cell was claimed.
C13_Witness ==
    /\ last.op = "unclaim"
    /\ last.sender = Console
    /\ last.msgs = <<>>
    /\ \E c \in Cells : claims[c] # NoClaim

\* C14: every claim or unclaim command a player issues delivers exactly one
\* message, to the issuer, fixed by the outcome: claim reports success or
\* already-claimed; unclaim reports not-claimed, no-permission or success
\* according to the entry at its cell.  The success message is sent iff the
\* command changed the registry.  (The passed check of a claim command is
\* not yet its end: it sends nothing and changes nothing.)
C14_OneMessagePerCommand ==
    [][/\ (last'.op \in {"claim", "unclaim"} /\ last'.sender \in Players)
          => LET X == last'.sender
                 C == last'.chunk
                 m == last'.msgs
                 mutated == claims' # claims
             IN /\ Len(m) = 1
                /\ m[1].to = X
                /\ last'.op = "claim" =>
                     /\ m[1].text \in {TxtClaimed, TxtAlready}
                     /\ (m[1].text = TxtClaimed) <=> mutated
                     /\ (m[1].text = TxtClaimed) <=> (pc[X] = "claim_chunk")
                /\ last'.op = "unclaim" =>
                     /\ (m[1].text = TxtNotClaimed)
                           <=> ~is_claimed_chunk(claims, C)
                     /\ (m[1].text = TxtNoPermission)
                           <=> (is_claimed_chunk(claims, C)
                                /\ claims[C].owner # X)
                     /\ (m[1].text = TxtUnclaimed)
                           <=> (is_claimed_chunk(claims, C)
                                /\ claims[C].owner = X)
                     /\ (m[1].text = TxtUnclaimed) <=> mutated
       /\ (last'.op = "claim_check")
          => (last'.msgs = <<>> /\ claims' = claims
              /\ pc'[last'.sender] = "claim_chunk")]_vars

\* C14 witness: a claim command has just reported success to its issuer
\* and the issuer is the owner of the cell.
C14_Witness ==
    /\ last.op = "claim"
    /\ last.sender \in Players
    /\ last.msgs = Success(last.sender)
    /\ claims[last.chunk].owner = last.sender

\* C15: when the movement handler's detail lookup finds no Claim although
\* its is-claimed test was true, it treats the cell as unclaimed: no notice
\* is sent, and no notice ever names a placeholder owner.  With no Claim at
\* the chunk column of any position that truncates to the tested cell, the
\* lookup found nothing, so no message may have been sent; and a notice that
\* is sent names a player.
C15_AbsentClaimIsSilent ==
    (last.op = "move")
    => /\ \A i \in DOMAIN last.msgs : last.msgs[i].name \in Players
       /\ (\A P \in Positions :
              MoveChunk(P) = last.chunk
              => get_claim_at(claims, P) = NoClaim)
          => last.msgs = <<>>

\* The cells that hold a Claim.
ClaimedCells == {c \in Cells : claims[c] # NoClaim}

\* C16: in every reachable registry every Claim's members are exactly its
\* owner, a player; a Claim that a claim command has just created has the
\* issuer as owner and as only member.  The members of a Claim are thus
\* those it was created with for as long as it exists.
C16_MembersAreOwner ==
    /\ \A c \in ClaimedCells :
          /\ claims[c].owner \in Players
          /\ Len(claims[c].members) = 1
          /\ {claims[c].members[i] : i \in DOMAIN claims[c].members}
                = {claims[c].owner}
    /\ (last.op = "claim" /\ last.sender \in Players
        /\ last.msgs = Success(last.sender))
       => claims[last.chunk]
            = [owner |-> last.sender, members |-> <<last.sender>>]

\* C16 witness: a claim command has just created a Claim while another
\* player's Claim on another cell exists.
C16_Witness ==
    /\ last.op = "claim"
    /\ last.sender \in Players
    /\ last.msgs = Success(last.sender)
    /\ \E c \in ClaimedCells : claims[c].owner # last.sender

\* C17: a step of a claim or unclaim command that resolves to cell C,
\* whether it succeeds or fails, leaves the entry of every other cell as it
\* was: same presence, same owner, same members.
C17_OtherCellsUnchanged ==
    [][(last'.op \in {"claim", "claim_check", "unclaim"})
       => \A c \in Cells \ {last'.chunk} :
             /\ is_claimed_chunk(claims', c) = is_claimed_chunk(claims, c)
             /\ claims'[c].owner = claims[c].owner
             /\ claims'[c].members = claims[c].members]_vars

\* C17 witness: a player's claim has just succeeded on one cell while the
\* same player still holds its Claim on another cell.
C17_Witness ==
    /\ last.op = "claim"
    /\ last.sender \in Players
    /\ last.msgs = Success(last.sender)
    /\ \E c \in ClaimedCells \ {last.chunk} : claims[c].owner = last.sender

\* The cells a decision may have resolved: the cell of the target for a
\* block interaction; for a movement, the cell it tested and the chunk
\* column of any position that truncates to that cell.
DecisionCells ==
    IF last.op = "move"
    THEN {last.chunk} \cup {from_block_position(P) :
                              P \in {Q \in Positions :
                                       MoveChunk(Q) = last.chunk}}
    ELSE {last.chunk}

\* C18: a block-interaction or movement decision reads one Claim as it
\* exists at one instant: whenever it sends a denial or an entry notice,
\* a Claim is present at a cell it resolved whose owner is the one the
\* message names, and the actor is neither that owner nor in that Claim's
\* members.
C18_NoticeFromOneClaim ==
    (last.op \in {"interact", "move"} /\ last.msgs # <<>>)
    => \E c \in DecisionCells \cap ClaimedCells :
          /\ \A i \in DOMAIN last.msgs : last.msgs[i].name = claims[c].owner
          /\ claims[c].owner # last.sender
          /\ ~Contains(claims[c].members, last.sender)

\* The scheduler runs every execution context again and again: a claim
\* command that has passed its check gets to make its claim_chunk call.
FairSpec == Spec /\ \A p \in Players : WF_vars(ClaimChunk(p))

\* C19: every invoked operation completes.  The unclaim command and the two
\* event decisions complete in the step that invokes them; a claim command
\* that has been invoked and has passed its check eventually returns,
\* whatever the other contexts do in between.
C19_CommandsComplete ==
    \A p \in Players : (pc[p] = "claim_chunk") ~> (pc[p] = "idle")

\* C19 witness: a claim command is under way on a cell that another
\* context has claimed in the meantime.
C19_Witness ==
    \E p \in Players :
       /\ pc[p] = "claim_chunk"
       /\ is_claimed_chunk(claims, player_chunk_pos[p])

\* C20: within one movement decision the cell tested by is_claimed_chunk
\* and the cell whose Claim get_claim_at fetches are the same cell for
\* every new position, so that the lookup returns a Claim whenever the test
\* was true.
C20_MoveTestsTheCellItFetches ==
    [][\A p \in Players, pos \in Positions :
          PlayerMove(p, pos)
          => /\ MoveChunk(pos) = from_block_position(pos)
             /\ is_claimed_chunk(claims, MoveChunk(pos))
                => get_claim_at(claims, pos) # NoClaim]_vars
====
